---- MODULE Spec2Model ----
(***************************************************************************)
(* A model of tracon's interception detector (src/src/interception.rs),    *)
(* its classifier and the parallel snapshot loader (src/src/lib.rs).       *)
(*                                                                         *)
(* Units.  Time is in whole seconds.  A coordinate is a whole number of    *)
(* 1e-4 degrees, and the positions of the model lie within 2 degrees of    *)
(* (0,0), where the haversine formula agrees with the planar one to within *)
(* 0.06 %.  Speeds are whole knots, altitudes whole feet.  An Option<T> is *)
(* the empty tuple (None) or a one-element tuple (Some(v)).                *)
(***************************************************************************)
EXTENDS Integers, Sequences, FiniteSets, TLC

VARIABLES
    now,               \* response.now of the latest processed response
    aircraft,          \* State.aircraft: hex -> Ac
    interceptions,     \* State.interceptions
    num_ac_indexed,    \* State.num_ac_indexed
    num_ac_processed,  \* State.num_ac_processed
    panicked,          \* an unwrap() of the tick failed: the process is gone
    response,          \* the latest processed response
    scenario,          \* name of the scripted feed this run opens with
    feed,              \* the scripted responses still to be delivered
    free,              \* number of unscripted ticks processed so far
    probe,             \* an Ac, a time, and what class() returned for them
    skip_json_errors,  \* for_each_adsbx_json's flag
    outcome,           \* per path: "ok", "bad" (the file does not decode) or
                       \* "f_err" (it decodes and the callback returns Err)
    next_tx_i,         \* parallel map: number of paths handed to the workers
    next_rx_i,         \* parallel map: number of results yielded so far
    work,              \* channel of path indices waiting for a worker
    busy,              \* per worker: the path it is decoding, or 0
    results,           \* channel of decoded path indices, in completion order
    out_of_order,      \* results received ahead of their turn
    pc,                \* where the calling thread is
    cur,               \* the path whose result the closure is handling
    active,            \* paths whose callback invocation is in progress
    delivered,         \* paths the callback was invoked for, in order
    bar,               \* position of the progress bar
    ret                \* what for_each_adsbx_json returned

engine_vars == <<now, aircraft, interceptions, num_ac_indexed,
                 num_ac_processed, panicked, response, scenario, feed, free>>

loader_vars == <<skip_json_errors, outcome, next_tx_i, next_rx_i, work, busy,
                 results, out_of_order, pc, cur, active, delivered, bar, ret>>

vars == <<engine_vars, probe, loader_vars>>

----------------------------------------------------------------------------
(* Option<T> *)

None == <<>>

Some(v) == <<v>>

IsSome(o) == o /= <<>>

Unwrap(o) == o[1]

Abs(x) == IF x < 0 THEN -x ELSE x

Max2(x, y) == IF x >= y THEN x ELSE y

Min2(x, y) == IF x <= y THEN x ELSE y

----------------------------------------------------------------------------
(* Program constants *)

INTERCEPTOR_MIN_SPEED_KTS == 400

TARGET_MAX_SPEED_KTS == 350

TARGET_MIN_SPEED_KTS == 80

INTERCEPTOR_TIMEOUT_MINS == 3

\* if self.coords.len() > 40
MaxCoords == 40

\* self.fast_count > 10
MinFastCount == 10

\* Duration::minutes(10), in seconds: the staleness and the dedup window
TenMinutes == 600

\* Duration::minutes(1), in seconds: the target recency gate
OneMinute == 60

\* dist < 500.0 (metres)
MaxLateralM == 500

\* alt_diff < 500 (feet)
MaxAltDiffFt == 500

\* (target.cur_speed - fast_mover.cur_speed).abs() < 150.0
MaxSpeedDiffKts == 150

\* geometric_altitude < 500 counts as on ground
GroundAltFt == 500

\* dist > 10.0 * 1609.34 metres, for a distance in whole metres
FarApartM == 16093

\* (MAX_DIST_NM / 60.0).powi(2) = (0.5 / 60)^2 deg^2 = 6944.4 squared
\* 1e-4-degree units; squared distances of the model are whole numbers
max_dist_deg_2 == 6944

----------------------------------------------------------------------------
(* adsbx_json::v2 values *)

\* AltitudeOrGround
OnGround == [ground |-> TRUE, alt |-> 0]

Altitude(a) == [ground |-> FALSE, alt |-> a]

\* alt_number: ground is 0
alt_number(alt) == IF alt.ground THEN 0 ELSE alt.alt

\* aircraft_is_on_ground
aircraft_is_on_ground(a) ==
    \/ (IsSome(a.barometric_altitude) /\ Unwrap(a.barometric_altitude) = OnGround)
    \/ (IsSome(a.geometric_altitude) /\ Unwrap(a.geometric_altitude) < GroundAltFt)

----------------------------------------------------------------------------
(* Distances *)

RECURSIVE SqrtIter(_, _, _)
SqrtIter(n, lo, hi) ==
    IF lo >= hi THEN lo
    ELSE LET mid == (lo + hi + 1) \div 2
         IN IF mid * mid <= n THEN SqrtIter(n, mid, hi)
                              ELSE SqrtIter(n, lo, mid - 1)

\* floor of the square root
ISqrt(n) == SqrtIter(n, 0, 46340)

\* rstar's distance_2 of two [lon, lat] points: squared planar distance
distance_2(p, q) ==
    (p[1] - q[1]) * (p[1] - q[1]) + (p[2] - q[2]) * (p[2] - q[2])

\* geo's haversine_distance, in whole metres: one 1e-4 degree of arc of the
\* mean-radius sphere is 11.119 m
haversine_distance(p, q) == (ISqrt(distance_2(p, q)) * 11119) \div 1000

----------------------------------------------------------------------------
(* Ac *)

\* Ac::new.  The caller unwraps the Result: ok = FALSE is its panic.
Ac_new(t, a) ==
    IF ~(IsSome(a.lon) /\ IsSome(a.lat)) THEN [ok |-> FALSE]
    ELSE IF ~IsSome(a.ground_speed_knots) THEN [ok |-> FALSE]
    ELSE IF ~IsSome(a.geometric_altitude) THEN [ok |-> FALSE]
    ELSE IF ~IsSome(a.seen_pos) THEN [ok |-> FALSE]
    ELSE LET spd == Unwrap(a.ground_speed_knots)
             is_fast == spd > INTERCEPTOR_MIN_SPEED_KTS
         IN [ok |-> TRUE,
             ac |-> [hex |-> a.hex,
                     coords |-> << <<t, <<Unwrap(a.lon), Unwrap(a.lat)>> >> >>,
                     max_speed |-> spd,
                     cur_speed |-> spd,
                     cur_alt |-> Unwrap(a.geometric_altitude),
                     is_on_ground |-> aircraft_is_on_ground(a),
                     time_seen_fast |-> IF is_fast THEN Some(t - Unwrap(a.seen_pos))
                                                   ELSE None,
                     fast_count |-> IF is_fast THEN 1 ELSE 0,
                     seen |-> t - Unwrap(a.seen_pos)]]

\* update_fields that starts the fast count again when the aircraft was
\* last seen fast 3 minutes ago or more
update_fields_restarts_count(self, t, a) ==
    LET has_spd == IsSome(a.ground_speed_knots)
        spd == Unwrap(a.ground_speed_knots)
        fast == has_spd /\ spd > INTERCEPTOR_MIN_SPEED_KTS
        cooled == /\ IsSome(self.time_seen_fast)
                  /\ t - Unwrap(self.time_seen_fast)
                         >= 60 * INTERCEPTOR_TIMEOUT_MINS
    IN [self EXCEPT
          !.cur_speed = IF has_spd THEN spd ELSE @,
          !.max_speed = IF has_spd THEN Max2(@, spd) ELSE @,
          !.time_seen_fast = IF fast THEN Some(t) ELSE @,
          !.fast_count = IF fast THEN (IF cooled THEN 1 ELSE @ + 1) ELSE @,
          !.cur_alt = IF IsSome(a.geometric_altitude)
                        THEN Unwrap(a.geometric_altitude)
                      ELSE IF IsSome(a.barometric_altitude)
                        THEN alt_number(Unwrap(a.barometric_altitude))
                      ELSE 0,
          !.is_on_ground = aircraft_is_on_ground(a)]

\* update_fields that stamps time_seen_fast at every update with a speed
update_fields_stamps_always(self, t, a) ==
    LET has_spd == IsSome(a.ground_speed_knots)
        spd == Unwrap(a.ground_speed_knots)
        fast == has_spd /\ spd > INTERCEPTOR_MIN_SPEED_KTS
    IN [self EXCEPT
          !.cur_speed = IF has_spd THEN spd ELSE @,
          !.max_speed = IF has_spd THEN Max2(@, spd) ELSE @,
          !.time_seen_fast = IF has_spd THEN Some(t) ELSE @,
          !.fast_count = IF fast THEN @ + 1 ELSE @,
          !.cur_alt = IF IsSome(a.geometric_altitude)
                        THEN Unwrap(a.geometric_altitude)
                      ELSE IF IsSome(a.barometric_altitude)
                        THEN alt_number(Unwrap(a.barometric_altitude))
                      ELSE 0,
          !.is_on_ground = aircraft_is_on_ground(a)]

\* update_fields without self.max_speed = self.max_speed.max(spd)
update_fields_keeps_max(self, t, a) ==
    LET has_spd == IsSome(a.ground_speed_knots)
        spd == Unwrap(a.ground_speed_knots)
        fast == has_spd /\ spd > INTERCEPTOR_MIN_SPEED_KTS
    IN [self EXCEPT
          !.cur_speed = IF has_spd THEN spd ELSE @,
          !.time_seen_fast = IF fast THEN Some(t) ELSE @,
          !.fast_count = IF fast THEN @ + 1 ELSE @,
          !.cur_alt = IF IsSome(a.geometric_altitude)
                        THEN Unwrap(a.geometric_altitude)
                      ELSE IF IsSome(a.barometric_altitude)
                        THEN alt_number(Unwrap(a.barometric_altitude))
                      ELSE 0,
          !.is_on_ground = aircraft_is_on_ground(a)]

\* Ac::update, lines 113-128: speed, fast count, altitude, on-ground
update_fields(self, t, a) ==
    LET has_spd == IsSome(a.ground_speed_knots)
        spd == Unwrap(a.ground_speed_knots)
        fast == has_spd /\ spd > INTERCEPTOR_MIN_SPEED_KTS
    IN [self EXCEPT
          !.cur_speed = IF has_spd THEN spd ELSE @,
          !.max_speed = IF has_spd THEN Max2(@, spd) ELSE @,
          !.time_seen_fast = IF fast THEN Some(t) ELSE @,
          !.fast_count = IF fast THEN @ + 1 ELSE @,
          !.cur_alt = IF IsSome(a.geometric_altitude)
                        THEN Unwrap(a.geometric_altitude)
                      ELSE IF IsSome(a.barometric_altitude)
                        THEN alt_number(Unwrap(a.barometric_altitude))
                      ELSE 0,
          !.is_on_ground = aircraft_is_on_ground(a)]

\* push that makes room by removing the newest of the stored positions
push_coords_drops_newest(coords, t, lon, lat) ==
    IF Len(coords) >= MaxCoords
      THEN Append(SubSeq(coords, 1, MaxCoords - 1), <<t, <<lon, lat>> >>)
      ELSE Append(coords, <<t, <<lon, lat>> >>)

\* push without the removal of the oldest position
push_coords_unbounded(coords, t, lon, lat) ==
    Append(coords, <<t, <<lon, lat>> >>)

\* push that stamps the position with the time it was seen (now - seen_pos
\* is at most a position's age before now; here: one minute)
push_coords_stale_stamp(coords, t, lon, lat) ==
    LET pushed == Append(coords, <<t - OneMinute, <<lon, lat>> >>)
    IN IF Len(pushed) > MaxCoords THEN Tail(pushed) ELSE pushed

\* Ac::update, lines 130-135: push, then keep the last 40 positions
push_coords(coords, t, lon, lat) ==
    LET pushed == Append(coords, <<t, <<lon, lat>> >>)
    IN IF Len(pushed) > MaxCoords THEN Tail(pushed) ELSE pushed

\* Ac::update.  ok = FALSE is the panic of an unwrap() on seen_pos, lon or
\* lat; ac is then the entry as the panic leaves it.
Ac_update(self, t, a) ==
    LET s1 == update_fields(self, t, a)
    IN IF ~IsSome(a.seen_pos) THEN [ok |-> FALSE, ac |-> s1]
       ELSE LET s2 == [s1 EXCEPT !.seen = t - Unwrap(a.seen_pos)]
            IN IF ~(IsSome(a.lon) /\ IsSome(a.lat))
                 THEN [ok |-> FALSE, ac |-> s2]
                 ELSE [ok |-> TRUE,
                       ac |-> [s2 EXCEPT !.coords =
                                 push_coords(@, t, Unwrap(a.lon), Unwrap(a.lat))]]

cur_coords(ac) == ac.coords[Len(ac.coords)]

oldest_coords(ac) == ac.coords[1]

\* chrono's Duration::num_minutes of a number of seconds: truncates to zero
num_minutes(secs) == IF secs >= 0 THEN secs \div 60 ELSE -((-secs) \div 60)

\* class with the timeout test as <=
class_timeout_inclusive(ac, t) ==
    IF /\ IsSome(ac.time_seen_fast)
       /\ num_minutes(t - Unwrap(ac.time_seen_fast)) <= INTERCEPTOR_TIMEOUT_MINS
       /\ ac.fast_count > MinFastCount
       /\ ~ac.is_on_ground
      THEN "Interceptor"
    ELSE IF /\ ac.cur_speed > TARGET_MIN_SPEED_KTS
            /\ ac.cur_speed < TARGET_MAX_SPEED_KTS
            /\ ~ac.is_on_ground
      THEN "Target"
    ELSE "Other"

\* class with the upper speed bound of a target as <=
class_max_inclusive(ac, t) ==
    IF /\ IsSome(ac.time_seen_fast)
       /\ num_minutes(t - Unwrap(ac.time_seen_fast)) < INTERCEPTOR_TIMEOUT_MINS
       /\ ac.fast_count > MinFastCount
       /\ ~ac.is_on_ground
      THEN "Interceptor"
    ELSE IF /\ ac.cur_speed > TARGET_MIN_SPEED_KTS
            /\ ac.cur_speed <= TARGET_MAX_SPEED_KTS
            /\ ~ac.is_on_ground
      THEN "Target"
    ELSE "Other"

\* class without the on-ground test of the interceptor branch
class_fast_on_ground(ac, t) ==
    IF /\ IsSome(ac.time_seen_fast)
       /\ num_minutes(t - Unwrap(ac.time_seen_fast)) < INTERCEPTOR_TIMEOUT_MINS
       /\ ac.fast_count > MinFastCount
      THEN "Interceptor"
    ELSE IF /\ ac.cur_speed > TARGET_MIN_SPEED_KTS
            /\ ac.cur_speed < TARGET_MAX_SPEED_KTS
            /\ ~ac.is_on_ground
      THEN "Target"
    ELSE "Other"

\* Ac::class
class(ac, t) ==
    IF /\ IsSome(ac.time_seen_fast)
       /\ num_minutes(t - Unwrap(ac.time_seen_fast)) < INTERCEPTOR_TIMEOUT_MINS
       /\ ac.fast_count > MinFastCount
       /\ ~ac.is_on_ground
      THEN "Interceptor"
    ELSE IF /\ ac.cur_speed > TARGET_MIN_SPEED_KTS
            /\ ac.cur_speed < TARGET_MAX_SPEED_KTS
            /\ ~ac.is_on_ground
      THEN "Target"
    ELSE "Other"

----------------------------------------------------------------------------
(* process_adsbx_response *)

\* lines 205-210: the record carries lat, lon, ground speed and geometric
\* altitude
has_required(a) ==
    /\ IsSome(a.lat)
    /\ IsSome(a.lon)
    /\ IsSome(a.ground_speed_knots)
    /\ IsSome(a.geometric_altitude)

\* lines 211-230, one record: insert or update the entry, then classify it.
\* c is [aircraft, fast_movers, potential_tois, panicked].
classify_record(c, t, a) ==
    IF ~has_required(a) THEN c
    ELSE LET known == a.hex \in DOMAIN c.aircraft
             r == IF known THEN Ac_update(c.aircraft[a.hex], t, a)
                           ELSE Ac_new(t, a)
         IN IF ~r.ok
              THEN [c EXCEPT !.panicked = TRUE,
                             !.aircraft = IF known
                                            THEN [@ EXCEPT ![a.hex] = r.ac]
                                            ELSE @]
              ELSE LET acs == IF known THEN [c.aircraft EXCEPT ![a.hex] = r.ac]
                                       ELSE c.aircraft @@ (a.hex :> r.ac)
                       k == class(r.ac, t)
                   IN [c EXCEPT
                         !.aircraft = acs,
                         !.fast_movers =
                             IF k = "Interceptor" THEN Append(@, r.ac) ELSE @,
                         !.potential_tois =
                             IF k = "Target" THEN Append(@, r.ac) ELSE @]

\* lines 204-231: the records of the response, in order; a panic ends it
RECURSIVE classify_loop(_, _, _, _)
classify_loop(c, t, recs, i) ==
    IF i > Len(recs) \/ c.panicked THEN c
    ELSE classify_loop(classify_record(c, t, recs[i]), t, recs, i + 1)

\* retain with the staleness test as <=
retain_fresh_inclusive(acs, t) ==
    [h \in {x \in DOMAIN acs : t - acs[x].seen <= TenMinutes} |-> acs[h]]

\* lines 233-235: retain(|_, ac| (now - ac.seen) < Duration::minutes(10))
retain_fresh(acs, t) ==
    [h \in {x \in DOMAIN acs : t - acs[x].seen < TenMinutes} |-> acs[h]]

\* index of the last entry of coords among those closest in time to ts
closest_index_last(coords, ts) ==
    CHOOSE i \in 1..Len(coords) :
        \A j \in 1..Len(coords) :
            \/ Abs(coords[i][1] - ts) < Abs(coords[j][1] - ts)
            \/ (Abs(coords[i][1] - ts) = Abs(coords[j][1] - ts) /\ i >= j)

\* index of the first entry of coords whose time is closest to ts: the head
\* of the stable sort_by_key(|c| (c.0 - ts).num_seconds().abs())
closest_index(coords, ts) ==
    CHOOSE i \in 1..Len(coords) :
        \A j \in 1..Len(coords) :
            \/ Abs(coords[i][1] - ts) < Abs(coords[j][1] - ts)
            \/ (Abs(coords[i][1] - ts) = Abs(coords[j][1] - ts) /\ i <= j)

\* started_far_apart with the threshold in metres left unconverted: dist > 10
started_far_apart_ten_metres(fast_mover, target) ==
    LET oldest_fm_ts == oldest_coords(fast_mover)[1]
        oldest_t_ts == target.coords[1][1]
        comparison_ts == Max2(oldest_fm_ts, oldest_t_ts)
        fm == fast_mover.coords[closest_index(fast_mover.coords, comparison_ts)]
        tg == target.coords[closest_index(target.coords, comparison_ts)]
    IN haversine_distance(fm[2], tg[2]) > 10

\* started_far_apart
started_far_apart(fast_mover, target) ==
    LET oldest_fm_ts == oldest_coords(fast_mover)[1]
        oldest_t_ts == target.coords[1][1]
        comparison_ts == Max2(oldest_fm_ts, oldest_t_ts)
        fm == fast_mover.coords[closest_index(fast_mover.coords, comparison_ts)]
        tg == target.coords[closest_index(target.coords, comparison_ts)]
    IN haversine_distance(fm[2], tg[2]) > FarApartM

\* the gates without the altitude-match gate
passes_gates_no_alt(fast_mover, target, t) ==
    /\ haversine_distance(cur_coords(target)[2], cur_coords(fast_mover)[2])
           < MaxLateralM
    /\ Abs(target.cur_speed - fast_mover.cur_speed) < MaxSpeedDiffKts
    /\ t - target.seen < OneMinute
    /\ started_far_apart(fast_mover, target)

\* the gates with the speed-match gate of the older detector (250 kt,
\* inclusive)
passes_gates_wide_speed(fast_mover, target, t) ==
    /\ haversine_distance(cur_coords(target)[2], cur_coords(fast_mover)[2])
           < MaxLateralM
    /\ Abs(target.cur_speed - fast_mover.cur_speed) <= 250
    /\ Abs(target.cur_alt - fast_mover.cur_alt) < MaxAltDiffFt
    /\ t - target.seen < OneMinute
    /\ started_far_apart(fast_mover, target)

\* the gates without the target recency gate
passes_gates_no_recency(fast_mover, target, t) ==
    /\ haversine_distance(cur_coords(target)[2], cur_coords(fast_mover)[2])
           < MaxLateralM
    /\ Abs(target.cur_speed - fast_mover.cur_speed) < MaxSpeedDiffKts
    /\ Abs(target.cur_alt - fast_mover.cur_alt) < MaxAltDiffFt
    /\ started_far_apart(fast_mover, target)

\* lines 266-270: the gates a candidate pair has to pass
passes_gates(fast_mover, target, t) ==
    /\ haversine_distance(cur_coords(target)[2], cur_coords(fast_mover)[2])
           < MaxLateralM
    /\ Abs(target.cur_speed - fast_mover.cur_speed) < MaxSpeedDiffKts
    /\ Abs(target.cur_alt - fast_mover.cur_alt) < MaxAltDiffFt
    /\ t - target.seen < OneMinute
    /\ started_far_apart(fast_mover, target)

\* the dedup test with a window of one minute
is_duplicate_one_minute(events, fast_mover, target, t) ==
    \E n \in 1..Len(events) :
        /\ events[n].interceptor.hex = fast_mover.hex
        /\ events[n].target.hex = target.hex
        /\ events[n].time > t - OneMinute

\* lines 275-279: the same pair was recorded within the past 10 minutes
is_duplicate(events, fast_mover, target, t) ==
    \E n \in 1..Len(events) :
        /\ events[n].interceptor.hex = fast_mover.hex
        /\ events[n].target.hex = target.hex
        /\ events[n].time > t - TenMinutes

\* lines 283-289.  lateral_separation_ft = dist * 3.28084 is kept in units
\* of 1e-5 ft.
new_interception(fast_mover, target, t) ==
    [interceptor |-> fast_mover,
     target |-> target,
     lateral_separation_ft |->
         haversine_distance(cur_coords(target)[2], cur_coords(fast_mover)[2])
             * 328084,
     vertical_separation_ft |-> Abs(target.cur_alt - fast_mover.cur_alt),
     time |-> t]

\* spatial_index.locate_within_distance(fast_mover_coords, max_dist_deg_2):
\* the indexed targets within the squared planar distance, in the order the
\* tree yields them
locate_within_distance(indexed, p) ==
    SelectSeq(indexed, LAMBDA tg : distance_2(cur_coords(tg)[2], p) <= max_dist_deg_2)

\* the position in events of the latest event of the pair, or 0
latest_of_pair(events, fast_mover, target) ==
    LET hits == {n \in 1..Len(events) :
                    /\ events[n].interceptor.hex = fast_mover.hex
                    /\ events[n].target.hex = target.hex}
    IN IF hits = {} THEN 0
       ELSE CHOOSE n \in hits : \A m \in hits : m <= n

\* the loop over the targets of a fast mover that refreshes the recorded
\* event of a pair in place when the pair is detected again within the
\* dedup window
RECURSIVE target_loop_refreshes(_, _, _, _, _)
target_loop_refreshes(e, fast_mover, targets, j, t) ==
    IF j > Len(targets) THEN e
    ELSE LET tg == targets[j]
             counted == [e EXCEPT !.num_ac_processed = @ + 1]
             passes == passes_gates(fast_mover, tg, t)
             dup == is_duplicate(e.interceptions, fast_mover, tg, t)
         IN target_loop_refreshes(
                IF passes /\ ~dup
                  THEN [counted EXCEPT !.interceptions =
                            Append(@, new_interception(fast_mover, tg, t))]
                ELSE IF passes /\ dup
                  THEN [counted EXCEPT
                          !.interceptions[latest_of_pair(e.interceptions,
                                                         fast_mover, tg)] =
                              new_interception(fast_mover, tg, t)]
                  ELSE counted,
                fast_mover, targets, j + 1, t)

\* lines 259-296, for one fast mover: e is [interceptions, num_ac_processed]
RECURSIVE target_loop(_, _, _, _, _)
target_loop(e, fast_mover, targets, j, t) ==
    IF j > Len(targets) THEN e
    ELSE LET tg == targets[j]
             counted == [e EXCEPT !.num_ac_processed = @ + 1]
             emit == /\ passes_gates(fast_mover, tg, t)
                     /\ ~is_duplicate(e.interceptions, fast_mover, tg, t)
         IN target_loop(
                IF emit
                  THEN [counted EXCEPT !.interceptions =
                            Append(@, new_interception(fast_mover, tg, t))]
                  ELSE counted,
                fast_mover, targets, j + 1, t)

\* lines 256-297
RECURSIVE fast_mover_loop(_, _, _, _, _)
fast_mover_loop(e, fast_movers, indexed, i, t) ==
    IF i > Len(fast_movers) THEN e
    ELSE fast_mover_loop(
             target_loop(e, fast_movers[i],
                         locate_within_distance(indexed,
                                                cur_coords(fast_movers[i])[2]),
                         1, t),
             fast_movers, indexed, i + 1, t)

\* The order in which the tree built by RTree::bulk_load yields its entries
\* is not specified: ord is a permutation of the indices of potential_tois.
tree_order(tois, ord) == [k \in 1..Len(tois) |-> tois[ord[k]]]

tree_orders(n) ==
    {f \in [1..n -> 1..n] : \A a, b \in 1..n : a /= b => f[a] /= f[b]}

\* the entries hs of the store classified like the records of a response
RECURSIVE classify_carried(_, _, _)
classify_carried(c, t, hs) ==
    IF hs = {} THEN c
    ELSE LET h == CHOOSE x \in hs : TRUE
             k == class(c.aircraft[h], t)
         IN classify_carried(
                [c EXCEPT
                   !.fast_movers =
                       IF k = "Interceptor" THEN Append(@, c.aircraft[h]) ELSE @,
                   !.potential_tois =
                       IF k = "Target" THEN Append(@, c.aircraft[h]) ELSE @],
                t, hs \ {h})

\* classification that also takes the entries of the store that the
\* response does not list
classify_all_with_store(s, resp) ==
    LET c == classify_loop([aircraft |-> s.aircraft, fast_movers |-> <<>>,
                            potential_tois |-> <<>>, panicked |-> FALSE],
                           resp.now, resp.aircraft, 1)
    IN IF c.panicked THEN c
       ELSE classify_carried(c, resp.now,
                {h \in DOMAIN c.aircraft :
                    \A i \in 1..Len(resp.aircraft) : resp.aircraft[i].hex /= h})

\* lines 202-231 on a state s = [aircraft, interceptions, num_ac_indexed,
\* num_ac_processed, panicked]
classify_all(s, resp) ==
    classify_loop([aircraft |-> s.aircraft, fast_movers |-> <<>>,
                   potential_tois |-> <<>>, panicked |-> FALSE],
                  resp.now, resp.aircraft, 1)

\* process_adsbx_response with num_ac_indexed counted before the return on
\* an empty list of fast movers
process_counts_before_return(s, resp, ord) ==
    LET c == classify_all(s, resp)
        t == resp.now
    IN IF c.panicked
         THEN [s EXCEPT !.aircraft = c.aircraft, !.panicked = TRUE]
       ELSE IF c.fast_movers = <<>>
         THEN [s EXCEPT !.aircraft = retain_fresh(c.aircraft, t),
                        !.num_ac_indexed = @ + Len(c.potential_tois)]
       ELSE LET e == fast_mover_loop(
                         [interceptions |-> s.interceptions,
                          num_ac_processed |-> s.num_ac_processed],
                         c.fast_movers, tree_order(c.potential_tois, ord), 1, t)
            IN [s EXCEPT
                  !.aircraft = retain_fresh(c.aircraft, t),
                  !.num_ac_indexed = @ + Len(c.potential_tois),
                  !.interceptions = e.interceptions,
                  !.num_ac_processed = e.num_ac_processed]

\* process_adsbx_response on a state s, for the tree order ord
process_adsbx_response(s, resp, ord) ==
    LET c == classify_all(s, resp)
        t == resp.now
    IN IF c.panicked
         THEN [s EXCEPT !.aircraft = c.aircraft, !.panicked = TRUE]
       ELSE IF c.fast_movers = <<>>
         THEN [s EXCEPT !.aircraft = retain_fresh(c.aircraft, t)]
       ELSE LET e == fast_mover_loop(
                         [interceptions |-> s.interceptions,
                          num_ac_processed |-> s.num_ac_processed],
                         c.fast_movers, tree_order(c.potential_tois, ord), 1, t)
            IN [s EXCEPT
                  !.aircraft = retain_fresh(c.aircraft, t),
                  !.num_ac_indexed = @ + Len(c.potential_tois),
                  !.interceptions = e.interceptions,
                  !.num_ac_processed = e.num_ac_processed]

----------------------------------------------------------------------------
(* The feeds of the model.  A run opens with one of a few scripted feeds   *)
(* (the seed scenarios of the specification, ticks 15 s apart) and goes on *)
(* with up to MaxFree ticks whose response is drawn from FreeResponses.    *)

\* number of unscripted ticks of a run
MaxFree == 1

HexA == "abc123"

HexB == "def456"

\* an adsbx_json::v2::Aircraft record
Rec(hex, lon, lat, spd, galt, balt, seen_pos) ==
    [hex |-> hex, lon |-> lon, lat |-> lat, ground_speed_knots |-> spd,
     geometric_altitude |-> galt, barometric_altitude |-> balt,
     seen_pos |-> seen_pos]

\* longitude where the two aircraft of the scenarios meet
MeetLon == 312 * 11

\* the interceptor of the scenarios at tick k: 312 units (3.5 km) a tick
ScriptA(k, spd, balt) ==
    Rec(HexA, Some(312 * (k - 1)), Some(0), Some(spd), Some(20000), balt, Some(0))

\* the target of the scenarios at tick k: from 2 degrees east to 24 units
\* (267 m) east of the interceptor at tick 12
ScriptB(k, spd, galt) ==
    Rec(HexB, Some(20000 - 1504 * (k - 1)), Some(0), Some(spd), Some(galt),
        None, Some(0))

\* S1 and its variants: 12 ticks, 15 s apart, of the two aircraft
Converge(aspd, abalt, bspd, bgalt) ==
    [k \in 1..12 |->
        [now |-> 15 * k,
         aircraft |-> <<ScriptA(k, aspd, abalt), ScriptB(k, bspd, bgalt)>>]]

\* S4: both aircraft start 24 units apart and stay paired
Paired ==
    [k \in 1..12 |->
        [now |-> 15 * k,
         aircraft |-> <<ScriptA(k, 450, None),
                        Rec(HexB, Some(312 * (k - 1) + 24), Some(0), Some(320),
                            Some(20100), None, Some(0))>>]]

\* 38 ticks of one aircraft whose hex is listed twice in the first response,
\* 2 degrees apart, and which is above 400 kt in ticks 2 to 11
Long ==
    [k \in 1..38 |->
        [now |-> 15 * k,
         aircraft |->
            IF k = 1
              THEN <<Rec(HexA, Some(0), Some(0), Some(340), Some(20000), None, Some(0)),
                     Rec(HexA, Some(20000), Some(0), Some(340), Some(20000), None, Some(0))>>
              ELSE <<Rec(HexA, Some(MeetLon), Some(0),
                         Some(IF k <= 11 THEN 450 ELSE 340),
                         Some(20000), None, Some(0))>>]]

\* S6 with the interceptor on ground by its geometric altitude: 450 ft,
\* the target 150 ft above it
Low ==
    [k \in 1..12 |->
        [now |-> 15 * k,
         aircraft |-> <<Rec(HexA, Some(312 * (k - 1)), Some(0), Some(450),
                            Some(450), None, Some(0)),
                        ScriptB(k, 320, 600)>>]]

\* the interception of "match", then a response 10 minutes later that lists
\* no aircraft: both entries are evicted
Gone ==
    Converge(450, None, 320, 20100)
        \o << [now |-> 180 + TenMinutes, aircraft |-> << >>] >>

Scenarios ==
    {"cold", "S1", "match", "S3", "S4", "S5", "S6", "low", "long", "gone"}

Script(name) ==
    CASE name = "cold"  -> <<>>
      [] name = "S1"    -> Converge(450, None, 200, 20100)
      [] name = "match" -> Converge(450, None, 320, 20100)
      [] name = "S3"    -> Converge(450, None, 320, 20600)
      [] name = "S4"    -> Paired
      [] name = "S5"    -> Converge(395, None, 320, 20100)
      [] name = "S6"    -> Converge(450, Some(OnGround), 320, 20100)
      [] name = "low"   -> Low
      [] name = "long"  -> Long
      [] name = "gone"  -> Gone

\* records of the interceptor for the unscripted ticks, at the meeting point
FreeA ==
    {Rec(HexA, Some(MeetLon), Some(0), Some(450), Some(20000), None, Some(0)),
     Rec(HexA, Some(MeetLon), Some(0), Some(340), Some(20000), None, Some(0)),
     Rec(HexA, Some(MeetLon), Some(0), Some(450), Some(20000), Some(OnGround), Some(0)),
     Rec(HexA, Some(MeetLon), Some(0), Some(450), Some(20000), None, None)}

\* records of the target for the unscripted ticks: 267 m from the meeting
\* point, or failing one gate, or lacking a field
FreeB ==
    {Rec(HexB, Some(MeetLon + 24), Some(0), Some(320), Some(20100), None, Some(0)),
     Rec(HexB, Some(MeetLon + 60), Some(0), Some(320), Some(20100), None, Some(0)),
     Rec(HexB, Some(MeetLon + 24), Some(0), Some(200), Some(20100), None, Some(0)),
     Rec(HexB, Some(MeetLon + 24), Some(0), Some(320), Some(20600), None, Some(0)),
     Rec(HexB, Some(MeetLon + 24), Some(0), Some(320), Some(20100), None, Some(70)),
     Rec(HexB, Some(MeetLon + 24), Some(0), Some(320), Some(20100), None, Some(600)),
     Rec(HexB, Some(MeetLon + 24), None, Some(320), Some(20100), None, Some(0))}

\* the aircraft lists of the unscripted responses: one record, an
\* interceptor record with a target record, or the same hex twice
FreeLists ==
    {<<a>> : a \in FreeA \cup FreeB}
        \cup {<<a, b>> : a \in FreeA, b \in FreeB}
        \cup {<<a, b>> : a \in FreeA, b \in FreeA}

\* seconds between an unscripted tick and the one before it; the files are
\* processed in the order the paths are given, so a tick may be older than
\* the one before it
Gaps == {-15, 15, 585, 600}

----------------------------------------------------------------------------
(* The detector as a state machine *)

State ==
    [aircraft |-> aircraft, interceptions |-> interceptions,
     num_ac_indexed |-> num_ac_indexed, num_ac_processed |-> num_ac_processed,
     panicked |-> panicked]

\* no run of the detector: State::default()
EngineIdle ==
    /\ now = 0
    /\ aircraft = << >>
    /\ interceptions = << >>
    /\ num_ac_indexed = 0
    /\ num_ac_processed = 0
    /\ panicked = FALSE
    /\ response = [now |-> 0, aircraft |-> << >>]
    /\ scenario = "cold"
    /\ feed = << >>
    /\ free = 0

\* no classification under study
ProbeIdle == probe = [ac |-> << >>, t |-> 0, out |-> "none"]

\* no run of the loader
LoaderIdle ==
    /\ skip_json_errors = FALSE
    /\ outcome = << >>
    /\ next_tx_i = 0
    /\ next_rx_i = 0
    /\ work = << >>
    /\ busy = << >>
    /\ results = << >>
    /\ out_of_order = {}
    /\ pc = "idle"
    /\ cur = 0
    /\ active = {}
    /\ delivered = << >>
    /\ bar = 0
    /\ ret = "none"

\* State::default(), before the first response
Init ==
    /\ now = 0
    /\ aircraft = << >>
    /\ interceptions = << >>
    /\ num_ac_indexed = 0
    /\ num_ac_processed = 0
    /\ panicked = FALSE
    /\ response = [now |-> 0, aircraft |-> << >>]
    /\ scenario \in Scenarios
    /\ feed = Script(scenario)
    /\ free = 0
    /\ ProbeIdle
    /\ LoaderIdle

\* the callback of main: process_adsbx_response(&mut state, response, bar)
Process(resp) ==
    \E ord \in tree_orders(Len(classify_all(State, resp).potential_tois)) :
        LET s == process_adsbx_response(State, resp, ord)
        IN /\ aircraft' = s.aircraft
           /\ interceptions' = s.interceptions
           /\ num_ac_indexed' = s.num_ac_indexed
           /\ num_ac_processed' = s.num_ac_processed
           /\ panicked' = s.panicked
           /\ now' = resp.now
           /\ response' = resp

ScriptedTick ==
    /\ ~panicked
    /\ feed /= << >>
    /\ Process(Head(feed))
    /\ feed' = Tail(feed)
    /\ UNCHANGED <<scenario, free, probe, loader_vars>>

FreeTick ==
    /\ ~panicked
    /\ feed = << >>
    /\ free < MaxFree
    /\ \E gap \in Gaps, list \in FreeLists :
           Process([now |-> now + gap, aircraft |-> list])
    /\ free' = free + 1
    /\ UNCHANGED <<scenario, feed, probe, loader_vars>>

Next == ScriptedTick \/ FreeTick

Spec == Init /\ [][Next]_vars

----------------------------------------------------------------------------
(* Claims about the detector *)

SamePair(e1, e2) ==
    /\ e1.interceptor.hex = e2.interceptor.hex
    /\ e1.target.hex = e2.target.hex

\* the scripted feed of scenario name has been processed, and nothing else
Finished(name) == scenario = name /\ feed = << >> /\ free = 0

\* C1: two recorded interceptions of the same (interceptor hex, target hex)
\* pair, the second with the later time, are at least 10 minutes apart; and
\* a candidate is suppressed whenever an event already recorded for its pair
\* has a time after now - 10 minutes, so an event is at least 10 minutes
\* later than every event of its pair recorded before it.
C1_DedupWindow ==
    \A i, j \in 1..Len(interceptions) :
        SamePair(interceptions[i], interceptions[j]) =>
            /\ interceptions[j].time > interceptions[i].time
                  => interceptions[j].time - interceptions[i].time >= TenMinutes
            /\ i < j
                  => interceptions[j].time - interceptions[i].time >= TenMinutes

\* a second interception of the pair abc123 -> def456 was recorded
C1_Witness ==
    \E i, j \in 1..Len(interceptions) :
        /\ i < j
        /\ SamePair(interceptions[i], interceptions[j])
        /\ interceptions[i].interceptor.hex = HexA
        /\ interceptions[i].target.hex = HexB
        /\ interceptions[j].time = interceptions[i].time + TenMinutes

\* C5: every recorded interception passed the proximity gates with the
\* snapshots it stores: less than 500 m (500 * 3.28084 ft) of lateral
\* separation, a vertical separation |T.cur_alt - I.cur_alt| below 500 ft,
\* and speeds less than 150 kt apart.
C5_ProximityGates ==
    \A n \in 1..Len(interceptions) :
        LET e == interceptions[n]
        IN /\ e.lateral_separation_ft < 500 * 328084
           /\ e.lateral_separation_ft =
                  haversine_distance(cur_coords(e.target)[2],
                                     cur_coords(e.interceptor)[2]) * 328084
           /\ e.vertical_separation_ft = Abs(e.target.cur_alt - e.interceptor.cur_alt)
           /\ e.vertical_separation_ft < 500
           /\ Abs(e.target.cur_speed - e.interceptor.cur_speed) < 150

\* an interception of two aircraft 267 m and 100 ft apart was recorded
C5_Witness ==
    \E n \in 1..Len(interceptions) :
        /\ interceptions[n].lateral_separation_ft > 0
        /\ interceptions[n].vertical_separation_ft = 100

\* C6 as stated: after the 12 ticks of S1 the event list holds exactly one
\* interception, of def456 by abc123, with a vertical separation of 100 ft.
C6_S1_OneEvent ==
    Finished("S1") =>
        /\ Len(interceptions) = 1
        /\ interceptions[1].interceptor.hex = HexA
        /\ interceptions[1].target.hex = HexB
        /\ interceptions[1].vertical_separation_ft = 100

\* C6 amended: after the 12 ticks of S1 the event list is empty (200 kt and
\* 450 kt are 250 kt apart: the speed-match gate rejects the pair); after
\* the same 12 ticks with the target at 320 kt it holds exactly one
\* interception, of def456 by abc123, with a vertical separation of 100 ft.
C6_S1_NoEvent ==
    /\ Finished("S1") => interceptions = << >>
    /\ Finished("match") =>
        /\ Len(interceptions) = 1
        /\ interceptions[1].interceptor.hex = HexA
        /\ interceptions[1].target.hex = HexB
        /\ interceptions[1].vertical_separation_ft = 100

\* S1 has been processed: abc123 is classified Interceptor, def456 Target,
\* and they are less than 300 m apart
C6_Witness ==
    /\ Finished("S1")
    /\ now = 180
    /\ class(aircraft[HexA], now) = "Interceptor"
    /\ class(aircraft[HexB], now) = "Target"
    /\ aircraft[HexA].cur_speed = 450
    /\ aircraft[HexB].cur_speed = 200
    /\ haversine_distance(cur_coords(aircraft[HexA])[2],
                          cur_coords(aircraft[HexB])[2]) < 300

\* C11: once process_adsbx_response has returned for a tick with time now,
\* the store holds no aircraft with now - seen >= 10 minutes, whether the
\* aircraft was in the response of the tick or not.
C11_NoStaleAircraft ==
    ~panicked =>
        \A h \in DOMAIN aircraft : now - aircraft[h].seen < TenMinutes

\* a tick 10 minutes after the last tick of S1 lists def456 with a position
\* 10 minutes old, and def456 is not in the store after it
C11_Witness ==
    /\ scenario = "S1"
    /\ free = 1
    /\ ~panicked
    /\ now = 180 + TenMinutes
    /\ HexA \in DOMAIN aircraft
    /\ HexB \notin DOMAIN aircraft
    /\ \E i \in 1..Len(response.aircraft) :
           /\ response.aircraft[i].hex = HexB
           /\ response.aircraft[i].seen_pos = Some(TenMinutes)

\* the record carries lat, lon, ground speed, geometric altitude and seen_pos
complete(a) == has_required(a) /\ IsSome(a.seen_pos)

\* C12: a record that lacks one of lat, lon, ground speed, geometric
\* altitude or seen_pos, for a hex that is not in the store, is skipped: the
\* tick does not panic, creates no entry for the hex, and processes the
\* other records of the response (here: complete records of other hexes).
C12_MissingFieldSkipped ==
    [][\A i \in 1..Len(response'.aircraft) :
          LET recs == response'.aircraft
              a == recs[i]
              others == (1..Len(recs)) \ {i}
          IN (/\ ~complete(a)
              /\ a.hex \notin DOMAIN aircraft
              /\ \A j \in others : recs[j].hex /= a.hex /\ complete(recs[j]))
             => /\ ~panicked'
                /\ a.hex \notin DOMAIN aircraft'
                /\ \A j \in others :
                       Unwrap(recs[j].seen_pos) < TenMinutes
                           => /\ recs[j].hex \in DOMAIN aircraft'
                              /\ aircraft'[recs[j].hex].seen
                                     = now' - Unwrap(recs[j].seen_pos)]_vars

\* C17: every aircraft of the store has between 1 and 40 positions in
\* coords: the history is never empty and never longer than 40.
C17_CoordsBounded ==
    \A h \in DOMAIN aircraft :
        /\ Len(aircraft[h].coords) >= 1
        /\ Len(aircraft[h].coords) <= 40

\* abc123 has had 41 positions pushed: coords holds 40, and the first one
\* (at (0,0), tick 1 of the scenario) is gone
C17_Witness ==
    /\ scenario = "long"
    /\ free >= 1
    /\ HexA \in DOMAIN aircraft
    /\ Len(aircraft[HexA].coords) = 40
    /\ oldest_coords(aircraft[HexA])[2] = <<20000, 0>>

\* the timestamps of coords never decrease from oldest to newest, and none
\* is later than t
Chronological(acs, t) ==
    \A h \in DOMAIN acs :
        /\ \A i \in 1..(Len(acs[h].coords) - 1) :
               acs[h].coords[i][1] <= acs[h].coords[i + 1][1]
        /\ \A i \in 1..Len(acs[h].coords) : acs[h].coords[i][1] <= t

\* C18: as long as the ticks are processed with non-decreasing now, the
\* timestamps of every aircraft's coords are non-decreasing from oldest to
\* newest: a tick that is not older than the one before it keeps them so.
C18_CoordsChronological ==
    [][(Chronological(aircraft, now) /\ now' >= now)
           => Chronological(aircraft', now')]_vars

\* the last tick of the long scenario was followed by one 15 s later that
\* lists abc123 twice: its two newest positions carry the same timestamp
\* and follow 38 older ones
C18_Witness ==
    /\ scenario = "long"
    /\ free = 1
    /\ now = 585
    /\ Chronological(aircraft, now)
    /\ HexA \in DOMAIN aircraft
    /\ Len(aircraft[HexA].coords) = 40
    /\ aircraft[HexA].coords[38][1] = 570
    /\ aircraft[HexA].coords[39][1] = 585
    /\ aircraft[HexA].coords[40][1] = 585

\* the records of hex h in a response that pass the guard of lines 205-210
Processed(h, resp) ==
    {i \in 1..Len(resp.aircraft) :
        resp.aircraft[i].hex = h /\ has_required(resp.aircraft[i])}

\* C19: every aircraft of the store has max_speed >= cur_speed, and the
\* max_speed of an entry never decreases: after a tick it is at least what
\* it was and at least every ground speed of the aircraft in the tick.
C19_MaxSpeed ==
    [][\A h \in DOMAIN aircraft' :
          /\ aircraft'[h].max_speed >= aircraft'[h].cur_speed
          /\ h \in DOMAIN aircraft
                => aircraft'[h].max_speed >= aircraft[h].max_speed
          /\ ~panicked'
                => \A i \in Processed(h, response') :
                       aircraft'[h].max_speed
                           >= Unwrap(response'.aircraft[i].ground_speed_knots)]_vars

\* abc123 flew at 450 kt and now flies at 340 kt: max_speed is above
\* cur_speed
C19_Witness ==
    /\ HexA \in DOMAIN aircraft
    /\ aircraft[HexA].max_speed = 450
    /\ aircraft[HexA].cur_speed = 340
    /\ Len(aircraft[HexA].coords) > 12

\* the aircraft was observed above 400 kt in the tick of the response
ObservedFast(h, resp) ==
    \E i \in Processed(h, resp) :
        Unwrap(resp.aircraft[i].ground_speed_knots) > 400

\* C20: the fast_count of an entry never decreases and is the number of
\* ticks, since the entry was created, in which the aircraft was observed
\* above 400 kt: a tick adds one to it when the aircraft is observed above
\* 400 kt in it, and nothing otherwise.
C20_FastCountCountsTicks ==
    [][~panicked' =>
          \A h \in DOMAIN aircraft' :
              LET before == IF h \in DOMAIN aircraft
                              THEN aircraft[h].fast_count ELSE 0
              IN /\ aircraft'[h].fast_count >= before
                 /\ aircraft'[h].fast_count
                        = before + (IF ObservedFast(h, response') THEN 1 ELSE 0)]_vars

\* the indices of the events that the step appends
Appended == (Len(interceptions) + 1)..Len(interceptions')

\* C21: in every recorded interception neither snapshot is on ground (its
\* flag is unset and its altitude is at least 500 ft); and an aircraft whose
\* record in a tick has barometric altitude "ground" or a geometric
\* altitude below 500 ft is in no event of that tick, whatever its speed and
\* fast_count.
C21_NoGroundParticipant ==
    [][/\ \A n \in 1..Len(interceptions') :
              /\ ~interceptions'[n].interceptor.is_on_ground
              /\ ~interceptions'[n].target.is_on_ground
              /\ interceptions'[n].interceptor.cur_alt >= 500
              /\ interceptions'[n].target.cur_alt >= 500
       /\ \A i \in 1..Len(response'.aircraft) :
              LET a == response'.aircraft[i]
              IN (/\ \/ a.barometric_altitude = Some(OnGround)
                     \/ IsSome(a.geometric_altitude)
                            /\ Unwrap(a.geometric_altitude) < 500
                  /\ \A j \in 1..Len(response'.aircraft) :
                         j /= i => response'.aircraft[j].hex /= a.hex)
                 => \A n \in Appended :
                        /\ interceptions'[n].interceptor.hex /= a.hex
                        /\ interceptions'[n].target.hex /= a.hex]_vars

\* S6 has been processed: abc123 has 12 fast ticks, the last one now, is
\* within 500 m and 500 ft of the target def456, which it approached from
\* 2 degrees away, is on ground by its barometric altitude, and no event
\* was recorded
C21_Witness ==
    /\ Finished("S6")
    /\ response.aircraft[1].barometric_altitude = Some(OnGround)
    /\ aircraft[HexA].fast_count = 12
    /\ aircraft[HexA].time_seen_fast = Some(now)
    /\ aircraft[HexA].is_on_ground
    /\ class(aircraft[HexB], now) = "Target"
    /\ haversine_distance(cur_coords(aircraft[HexA])[2],
                          cur_coords(aircraft[HexB])[2]) < 500
    /\ Abs(aircraft[HexA].cur_alt - aircraft[HexB].cur_alt) < 500
    /\ interceptions = << >>

\* C22: the event list is append-only and its elements never change: a
\* step leaves every event it finds in place and unmodified, whatever
\* happens to the aircraft in the store.
C22_EventsAppendOnly ==
    [][/\ Len(interceptions') >= Len(interceptions)
       /\ \A n \in 1..Len(interceptions) :
              interceptions'[n] = interceptions[n]]_vars

\* the event of the match scenario is still as recorded at tick 12 after a
\* later tick updated its interceptor in the store and evicted its target
C22_Witness ==
    /\ scenario = "match"
    /\ free = 1
    /\ Len(interceptions) = 1
    /\ interceptions[1].time = 180
    /\ Len(interceptions[1].interceptor.coords) = 12
    /\ HexA \in DOMAIN aircraft
    /\ Len(aircraft[HexA].coords) = 13
    /\ HexB \notin DOMAIN aircraft

\* the position of coords whose timestamp is closest to t, the oldest one
\* among equally close positions
FirstClosest(coords, t) ==
    LET gap(i) == Abs(coords[i][1] - t)
        best == {i \in 1..Len(coords) : \A j \in 1..Len(coords) : gap(i) <= gap(j)}
    IN coords[CHOOSE i \in best : \A j \in best : i <= j][2]

\* C23: every recorded interception passed the history-separation gate:
\* with t_ref the later of the oldest coords timestamps of its two
\* snapshots, the positions of interceptor and target closest in time to
\* t_ref are more than 16093.4 m apart.  A pair that was within 10 miles
\* at t_ref produces no event: S4, whose aircraft start paired, records none.
C23_StartedFarApart ==
    /\ \A n \in 1..Len(interceptions) :
           LET e == interceptions[n]
               t_ref == Max2(e.interceptor.coords[1][1], e.target.coords[1][1])
           IN haversine_distance(FirstClosest(e.interceptor.coords, t_ref),
                                 FirstClosest(e.target.coords, t_ref)) > 16093
    /\ Finished("S4") => interceptions = << >>

\* S4 has been processed: abc123 is an interceptor, def456 a target 267 m
\* and 100 ft from it, 130 kt slower and just seen, they were 267 m apart
\* at their first tick, and no event was recorded
C23_Witness ==
    /\ Finished("S4")
    /\ class(aircraft[HexA], now) = "Interceptor"
    /\ class(aircraft[HexB], now) = "Target"
    /\ haversine_distance(cur_coords(aircraft[HexA])[2],
                          cur_coords(aircraft[HexB])[2]) < 500
    /\ Abs(aircraft[HexA].cur_alt - aircraft[HexB].cur_alt) = 100
    /\ Abs(aircraft[HexA].cur_speed - aircraft[HexB].cur_speed) = 130
    /\ aircraft[HexB].seen = now
    /\ haversine_distance(oldest_coords(aircraft[HexA])[2],
                          oldest_coords(aircraft[HexB])[2]) < 500
    /\ interceptions = << >>

\* C24 as stated: every tick, also one in which no aircraft is classified
\* Interceptor, adds to num_ac_indexed the number of aircraft it classifies
\* Target.
C24_IndexedEveryTick ==
    [][~panicked' =>
          num_ac_indexed' = num_ac_indexed
              + Len(classify_all(State, response').potential_tois)]_vars

\* C24 amended: a tick in which an aircraft is classified Interceptor adds
\* to num_ac_indexed the number of records it classifies Target (the
\* entries of the spatial index it builds); a tick without an Interceptor
\* leaves num_ac_indexed as it is.
C24_IndexedWhenIndexBuilt ==
    [][~panicked' =>
          LET c == classify_all(State, response')
          IN num_ac_indexed' = num_ac_indexed
                 + (IF c.fast_movers = << >> THEN 0 ELSE Len(c.potential_tois))]_vars

\* 11 ticks of the match scenario classified def456 Target; only the 11th
\* had an Interceptor, and num_ac_indexed is 1
C24_Witness ==
    /\ scenario = "match"
    /\ Len(feed) = 1
    /\ now = 165
    /\ class(aircraft[HexB], now) = "Target"
    /\ class(aircraft[HexA], now) = "Interceptor"
    /\ aircraft[HexA].fast_count = 11
    /\ num_ac_indexed = 1

\* C25: every recorded interception has a target snapshot seen less than
\* one minute before the time of the event, where seen is the time of the
\* tick minus the seen_pos age that a record of the tick reports for the
\* target.
C25_TargetRecentlySeen ==
    [][/\ \A n \in 1..Len(interceptions') :
              interceptions'[n].time - interceptions'[n].target.seen < 60
       /\ \A n \in Appended :
              /\ interceptions'[n].time = now'
              /\ \E i \in 1..Len(response'.aircraft) :
                     LET a == response'.aircraft[i]
                     IN /\ a.hex = interceptions'[n].target.hex
                        /\ IsSome(a.seen_pos)
                        /\ interceptions'[n].target.seen = now' - Unwrap(a.seen_pos)]_vars

\* ten minutes after the event of the match scenario its pair meets every
\* other gate again, but the position of def456 is 70 s old: no second
\* event is recorded
C25_Witness ==
    /\ scenario = "match"
    /\ free = 1
    /\ now = 180 + TenMinutes
    /\ Len(interceptions) = 1
    /\ HexA \in DOMAIN aircraft
    /\ HexB \in DOMAIN aircraft
    /\ class(aircraft[HexA], now) = "Interceptor"
    /\ class(aircraft[HexB], now) = "Target"
    /\ aircraft[HexB].seen = now - 70
    /\ haversine_distance(cur_coords(aircraft[HexA])[2],
                          cur_coords(aircraft[HexB])[2]) < 500
    /\ Abs(aircraft[HexA].cur_alt - aircraft[HexB].cur_alt) < 500
    /\ Abs(aircraft[HexA].cur_speed - aircraft[HexB].cur_speed) < 150

\* the number of scripted ticks processed so far in which hex h was
\* observed above 400 kt; the entries of the scripted feeds are created in
\* their first tick and are not evicted before their last
FastTicks(h) ==
    Cardinality({k \in 1..(Len(Script(scenario)) - Len(feed)) :
                    ObservedFast(h, Script(scenario)[k])})

\* C26: an aircraft is not classified Interceptor, and is not the
\* interceptor of an event, before it has been above 400 kt on more than 10
\* ticks since its entry was created: whatever response follows the
\* scripted ticks processed so far, the aircraft its tick classifies
\* Interceptor have been above 400 kt in more than 10 of these ticks, the
\* new one included.
C26_InterceptorAfterTenFastTicks ==
    free = 0 =>
        /\ \A n \in 1..Len(interceptions) :
               FastTicks(interceptions[n].interceptor.hex) > 10
        /\ \A gap \in Gaps, list \in FreeLists :
               LET resp == [now |-> now + gap, aircraft |-> list]
                   c == classify_all(State, resp)
               IN \A m \in 1..Len(c.fast_movers) :
                      LET h == c.fast_movers[m].hex
                      IN FastTicks(h) + (IF ObservedFast(h, resp) THEN 1 ELSE 0) > 10

\* C28: a record that lacks one of lat, lon, ground speed, geometric
\* altitude or seen_pos, for a hex that is in the store (the other records
\* of the response being complete and of other hexes), leaves the entry of
\* the hex as it was, puts the hex in no event of the tick, and the tick
\* does not panic.
C28_IncompleteRecordIgnored ==
    [][\A i \in 1..Len(response'.aircraft) :
          LET recs == response'.aircraft
              a == recs[i]
              others == (1..Len(recs)) \ {i}
          IN (/\ ~complete(a)
              /\ a.hex \in DOMAIN aircraft
              /\ \A j \in others : recs[j].hex /= a.hex /\ complete(recs[j]))
             => /\ ~panicked'
                /\ a.hex \in DOMAIN aircraft'
                       => aircraft'[a.hex] = aircraft[a.hex]
                /\ \A k \in Appended :
                       /\ interceptions'[k].interceptor.hex /= a.hex
                       /\ interceptions'[k].target.hex /= a.hex]_vars

\* the response has no record of hex h
Unlisted(h, resp) == \A i \in 1..Len(resp.aircraft) : resp.aircraft[i].hex /= h

\* C29 as stated: an entry that the tick's response does not list is
\* evicted by the tick when tick_time - seen > 10 minutes and only then; at
\* 10 minutes or less it is still in the store, unmodified.
C29_EvictedAfterTenMinutes ==
    [][\A h \in DOMAIN aircraft :
          (Unlisted(h, response') /\ ~panicked')
             => IF now' - aircraft[h].seen <= TenMinutes
                  THEN h \in DOMAIN aircraft' /\ aircraft'[h] = aircraft[h]
                  ELSE h \notin DOMAIN aircraft']_vars

\* C29: an entry that the tick's response does not list is evicted by the
\* tick when tick_time - seen >= 10 minutes and only then; below 10 minutes
\* it is still in the store, unmodified.
C29_EvictedAtTenMinutes ==
    [][\A h \in DOMAIN aircraft :
          (Unlisted(h, response') /\ ~panicked')
             => IF now' - aircraft[h].seen < TenMinutes
                  THEN h \in DOMAIN aircraft' /\ aircraft'[h] = aircraft[h]
                  ELSE h \notin DOMAIN aircraft']_vars

\* def456 was last seen at the last tick of S1; a tick exactly 10 minutes
\* later that lists only abc123 has evicted it
C29_Witness ==
    /\ scenario = "S1"
    /\ free = 1
    /\ ~panicked
    /\ now = 180 + TenMinutes
    /\ Unlisted(HexB, response)
    /\ HexA \in DOMAIN aircraft
    /\ aircraft[HexA].seen = now
    /\ HexB \notin DOMAIN aircraft

\* new is old with at most one position pushed (the push drops the oldest
\* position of a full history)
AtMostOnePush(old, new) ==
    \/ new = old
    \/ /\ Len(new) >= 1
       /\ \/ SubSeq(new, 1, Len(new) - 1) = old
          \/ /\ Len(old) = MaxCoords
             /\ SubSeq(new, 1, Len(new) - 1) = Tail(old)

\* C30: a tick appends at most one position to the coords of any aircraft,
\* whatever the response, one that lists a hex in several records included:
\* a new entry has one position, an entry of before has its history with at
\* most one position pushed.
C30_OnePositionPerTick ==
    [][~panicked'
          => \A h \in DOMAIN aircraft' :
                IF h \in DOMAIN aircraft
                  THEN AtMostOnePush(aircraft[h].coords, aircraft'[h].coords)
                  ELSE Len(aircraft'[h].coords) = 1]_vars

\* the (now, [lon, lat]) pairs of the records of hex h that the tick
\* processes, in the order of the response
PositionsOf(h, resp) ==
    LET idx == Processed(h, resp)
        F[i \in 0..Len(resp.aircraft)] ==
            IF i = 0 THEN << >>
            ELSE IF i \in idx
              THEN Append(F[i - 1],
                          <<resp.now, <<Unwrap(resp.aircraft[i].lon),
                                        Unwrap(resp.aircraft[i].lat)>> >>)
              ELSE F[i - 1]
    IN F[Len(resp.aircraft)]

\* the last n elements of a sequence (all of it when it has fewer)
LastN(seq, n) ==
    IF Len(seq) <= n THEN seq ELSE SubSeq(seq, Len(seq) - n + 1, Len(seq))

\* C31: each update of an entry appends the record's (now, [lon, lat]) as
\* the last element of coords and, when coords already held 40 entries,
\* drops exactly the oldest: after a tick the coords of an entry of before
\* are the last 40 of its previous coords followed by the tick's positions
\* of the hex, in order.
C31_PushDropsOldest ==
    [][\A h \in DOMAIN aircraft \cap DOMAIN aircraft' :
          ~panicked'
             => aircraft'[h].coords
                   = LastN(aircraft[h].coords \o PositionsOf(h, response'),
                           MaxCoords)]_vars

\* abc123 had 39 positions and a response listed it twice: the second
\* update found 40 positions, dropped the oldest (15, (0, 0)) and put the
\* new one last
C31_Witness ==
    /\ scenario = "long"
    /\ free = 1
    /\ ~panicked
    /\ Len(response.aircraft) = 2
    /\ HexA \in DOMAIN aircraft
    /\ Len(aircraft[HexA].coords) = MaxCoords
    /\ aircraft[HexA].coords[1] = <<15, <<20000, 0>> >>
    /\ aircraft[HexA].coords[2][1] = 30
    /\ aircraft[HexA].coords[MaxCoords] = <<now, <<MeetLon, 0>> >>

\* hex h has been in the store (an event recorded it) and is not in it
Evicted(h) ==
    /\ h \notin DOMAIN aircraft
    /\ \E k \in 1..Len(interceptions) :
           h \in {interceptions[k].interceptor.hex, interceptions[k].target.hex}

C34_PairedFromResponse ==
    [][/\ \A k \in Appended :
              /\ Processed(interceptions'[k].interceptor.hex, response') /= {}
              /\ Processed(interceptions'[k].target.hex, response') /= {}
       /\ LET c == classify_all(State, response')
          IN /\ \A i \in 1..Len(c.fast_movers) :
                    Processed(c.fast_movers[i].hex, response') /= {}
             /\ \A i \in 1..Len(c.potential_tois) :
                    Processed(c.potential_tois[i].hex, response') /= {}]_vars

\* after S6 a response lists only abc123, airborne at 450 kt: it is an
\* interceptor, the entry of def456 in the store is a target 267 m from it
\* that passes every gate, and no event is recorded
C34_Witness ==
    /\ scenario = "S6"
    /\ free = 1
    /\ ~panicked
    /\ now = 195
    /\ Len(response.aircraft) = 1
    /\ response.aircraft[1].hex = HexA
    /\ HexA \in DOMAIN aircraft
    /\ HexB \in DOMAIN aircraft
    /\ class(aircraft[HexA], now) = "Interceptor"
    /\ class(aircraft[HexB], now) = "Target"
    /\ passes_gates(aircraft[HexA], aircraft[HexB], now)
    /\ interceptions = << >>

\* responses in which the position of the interceptor is 10 minutes old:
\* its record with seen_pos = 600 s, and a record of the target
StaleLists ==
    {<<Rec(HexA, Some(MeetLon), Some(0), Some(450), Some(20000), None,
           Some(TenMinutes)), b>> : b \in FreeB}

\* C35: both aircraft of every event that a tick records are entries of
\* the store when the tick returns.  Stated of the tick that processes, in
\* the current state, a response of FreeLists or of StaleLists.
C35_EventAircraftInStore ==
    free = 0 =>
        \A gap \in Gaps, list \in FreeLists \cup StaleLists :
            LET resp == [now |-> now + gap, aircraft |-> list]
            IN \A ord \in tree_orders(Len(classify_all(State, resp).potential_tois)) :
                 LET s == process_adsbx_response(State, resp, ord)
                 IN s.panicked \/
                    \A k \in (Len(interceptions) + 1)..Len(s.interceptions) :
                        /\ s.interceptions[k].interceptor.hex \in DOMAIN s.aircraft
                        /\ s.interceptions[k].target.hex \in DOMAIN s.aircraft

\* the response has a processed record of h above 400 kt and not on ground
FastAirborne(h, resp) ==
    \E i \in Processed(h, resp) :
        /\ Unwrap(resp.aircraft[i].ground_speed_knots) > 400
        /\ ~aircraft_is_on_ground(resp.aircraft[i])

\* C36: the fast_count of an entry is never lowered by a tick, and an entry
\* with fast_count > 10 that was last seen fast 3 minutes or more before a
\* tick is among the fast movers of that tick as soon as the tick has a
\* record of it above 400 kt and not on ground.
C36_CooledInterceptorReturns ==
    [][~panicked'
          => \A h \in DOMAIN aircraft :
                /\ h \in DOMAIN aircraft'
                      => aircraft'[h].fast_count >= aircraft[h].fast_count
                /\ (/\ aircraft[h].fast_count > 10
                    /\ IsSome(aircraft[h].time_seen_fast)
                    /\ now' - Unwrap(aircraft[h].time_seen_fast) >= 180
                    /\ FastAirborne(h, response'))
                      => \E m \in 1..Len(classify_all(State, response').fast_movers) :
                             classify_all(State, response').fast_movers[m].hex = h]_vars

\* abc123 was fast in the 12 ticks of S1 and is fast and airborne again in a
\* tick 585 s later: it is an interceptor in that tick, with fast_count 13
C36_Witness ==
    /\ scenario = "S1"
    /\ free = 1
    /\ ~panicked
    /\ now = 180 + 585
    /\ HexA \in DOMAIN aircraft
    /\ aircraft[HexA].fast_count = 13
    /\ aircraft[HexA].time_seen_fast = Some(now)
    /\ Len(aircraft[HexA].coords) = 13
    /\ aircraft[HexA].coords[12][1] = 180
    /\ class(aircraft[HexA], now) = "Interceptor"

C9_NoSelfPair ==
    \A n \in 1..Len(interceptions) :
        interceptions[n].interceptor.hex /= interceptions[n].target.hex

\* C10: processing a response a second time right after the first adds no
\* event to the list the first processing left.
C10_ReprocessAddsNothing ==
    \A gap \in Gaps, list \in FreeLists :
        LET resp == [now |-> now + gap, aircraft |-> list]
        IN \A o1 \in tree_orders(Len(classify_all(State, resp).potential_tois)) :
             LET s1 == process_adsbx_response(State, resp, o1)
             IN s1.panicked \/
                \A o2 \in tree_orders(Len(classify_all(s1, resp).potential_tois)) :
                    process_adsbx_response(s1, resp, o2).interceptions
                        = s1.interceptions

----------------------------------------------------------------------------
(* The classifier on its own: class() applied to an aircraft state and a   *)
(* tick time drawn from the values around its thresholds.                  *)

\* the time at which the probed aircraft was last seen fast
ProbeFastAt == 15 * 12

ProbeSpeeds == {80, 81, 200, 349, 350, 450}

ProbeFastCounts == {0, 1, 10, 11, 12}

\* seconds since time_seen_fast; negative when the tick is older
ProbeElapsed == {-60, 0, 179, 180, 181, 240}

\* an Ac as Ac::new and Ac::update leave it: time_seen_fast is set once the
\* aircraft has been fast, and max_speed is at least cur_speed
ProbeAc(spd, ground, count) ==
    [hex |-> HexA,
     coords |-> << <<ProbeFastAt, <<0, 0>> >> >>,
     max_speed |-> IF count > 0 THEN Max2(spd, 450) ELSE spd,
     cur_speed |-> spd,
     cur_alt |-> IF ground THEN 0 ELSE 20000,
     is_on_ground |-> ground,
     time_seen_fast |-> IF count > 0 THEN Some(ProbeFastAt) ELSE None,
     fast_count |-> count,
     seen |-> ProbeFastAt]

\* a cur_speed above 400 kt has been counted in fast_count
ClassInit ==
    /\ EngineIdle
    /\ LoaderIdle
    /\ \E spd \in ProbeSpeeds, ground \in BOOLEAN,
          count \in ProbeFastCounts, el \in ProbeElapsed :
           /\ spd > INTERCEPTOR_MIN_SPEED_KTS => count > 0
           /\ probe = [ac |-> ProbeAc(spd, ground, count),
                       t |-> ProbeFastAt + el,
                       out |-> "pending"]

Classify ==
    /\ probe.out = "pending"
    /\ probe' = [probe EXCEPT !.out = class(probe.ac, probe.t)]
    /\ UNCHANGED <<engine_vars, loader_vars>>

ClassSpec == ClassInit /\ [][Classify]_vars

\* the Interceptor predicate of the specification, in seconds
InterceptorPredicate(ac, t) ==
    /\ ac.time_seen_fast /= None
    /\ t - ac.time_seen_fast[1] < 3 * 60
    /\ ac.fast_count > 10
    /\ ~ac.is_on_ground

\* the Target predicate of the specification
TargetPredicate(ac) ==
    /\ 80 < ac.cur_speed
    /\ ac.cur_speed < 350
    /\ ~ac.is_on_ground

\* C7: class returns Interceptor exactly when time_seen_fast is set, less
\* than 3 minutes have passed since it, fast_count > 10 and the aircraft is
\* not on ground.
C7_InterceptorIff ==
    probe.out \notin {"none", "pending"} =>
        (probe.out = "Interceptor" <=> InterceptorPredicate(probe.ac, probe.t))

\* class returned Interceptor 2 min 59 s after the aircraft was last fast
C7_Witness ==
    /\ probe.out = "Interceptor"
    /\ probe.t - probe.ac.time_seen_fast[1] = 179

\* C8: class returns Target exactly when the Interceptor predicate fails,
\* 80 < cur_speed < 350 and the aircraft is not on ground, and Other in
\* every remaining case.
C8_TargetIff ==
    probe.out \notin {"none", "pending"} =>
        /\ probe.out \in {"Interceptor", "Target", "Other"}
        /\ probe.out = "Target" <=>
               (~InterceptorPredicate(probe.ac, probe.t) /\ TargetPredicate(probe.ac))
        /\ probe.out = "Other" <=>
               (~InterceptorPredicate(probe.ac, probe.t) /\ ~TargetPredicate(probe.ac))

\* class returned Target for an aircraft at 349 kt whose 11 fast ticks are
\* 3 minutes old
C8_Witness ==
    /\ probe.out = "Target"
    /\ probe.ac.cur_speed = 349
    /\ probe.ac.fast_count = 11
    /\ probe.t - probe.ac.time_seen_fast[1] = 180

----------------------------------------------------------------------------
(* Ac::update on its own: the method applied to an entry and a record      *)
(* drawn from the combinations of present and absent fields.               *)

\* the time of the update
UpdateAt == 15 * 13

UpdateAcs ==
    {ProbeAc(spd, ground, count) :
        spd \in {340, 450}, ground \in BOOLEAN, count \in {1, 11}}

UpdateRecs ==
    {Rec(HexA, Some(MeetLon), Some(0), spd, galt, balt, seen_pos) :
        spd \in {None, Some(340), Some(450)},
        galt \in {None, Some(300), Some(21000)},
        balt \in {None, Some(OnGround), Some(Altitude(19000))},
        seen_pos \in {None, Some(0)}}

UpdateInit ==
    /\ EngineIdle
    /\ LoaderIdle
    /\ \E ac \in UpdateAcs, rec \in UpdateRecs :
           probe = [ac |-> ac, rec |-> rec, t |-> UpdateAt,
                    done |-> FALSE, out |-> << >>]

\* ac.update(now, aircraft)
Update ==
    /\ ~probe.done
    /\ probe' = [probe EXCEPT !.done = TRUE,
                              !.out = Ac_update(probe.ac, probe.t, probe.rec)]
    /\ UNCHANGED <<engine_vars, loader_vars>>

UpdateSpec == UpdateInit /\ [][Update]_vars

----------------------------------------------------------------------------
(* started_far_apart on its own: the function applied to two coordinate    *)
(* histories drawn from short histories with equal and with equally        *)
(* distant timestamps.                                                     *)

\* the timestamps of the histories: three ticks, 15 s apart
HistoryTimes == {0, 15, 30}

\* the positions of the histories: two points 2 degrees apart
HistoryPoints == {<<0, 0>>, <<20000, 0>>}

\* coords as the detector builds them: 1 to 3 entries, timestamps in
\* non-decreasing order
HistoryCoords ==
    {c \in UNION {[1..n -> HistoryTimes \X HistoryPoints] : n \in 1..3} :
        \A k \in 1..(Len(c) - 1) : c[k][1] <= c[k + 1][1]}

FarApartInit ==
    /\ EngineIdle
    /\ LoaderIdle
    /\ \E f \in HistoryCoords, g \in HistoryCoords :
           probe = [fast_mover |-> [coords |-> f], target |-> [coords |-> g],
                    done |-> FALSE, out |-> FALSE]

\* started_far_apart(&fast_mover, &target)
FarApart ==
    /\ ~probe.done
    /\ probe' = [probe EXCEPT
                    !.done = TRUE,
                    !.out = started_far_apart(probe.fast_mover, probe.target)]
    /\ UNCHANGED <<engine_vars, loader_vars>>

FarApartSpec == FarApartInit /\ [][FarApart]_vars

\* the entries of coords whose timestamp is at the minimal absolute
\* difference from t
Closest(coords, t) ==
    {i \in 1..Len(coords) :
        \A j \in 1..Len(coords) :
            Abs(coords[i][1] - t) <= Abs(coords[j][1] - t)}

\* the position of the earliest entry of the history among them
EarliestClosest(coords, t) ==
    coords[CHOOSE i \in Closest(coords, t) :
               \A j \in Closest(coords, t) : i <= j][2]

\* C39: the result of started_far_apart is the one computed from, for each
\* of the two aircraft, the earliest entry of its history among the entries
\* at the minimal absolute time difference from t_ref, t_ref being the
\* later of the two oldest timestamps.
C39_EarliestOfTies ==
    probe.done
        => LET f == probe.fast_mover.coords
               g == probe.target.coords
               t_ref == Max2(f[1][1], g[1][1])
           IN probe.out
                 = (haversine_distance(EarliestClosest(f, t_ref),
                                       EarliestClosest(g, t_ref)) > 16093)

\* the fast mover has positions at 0 s and 30 s, 2 degrees apart, the
\* target two positions at 15 s, 2 degrees apart: t_ref is 15 s, both
\* histories have two entries equally close to it, and the aircraft started
\* far apart by their earliest ones
C39_Witness ==
    /\ probe.done
    /\ probe.fast_mover.coords = << <<0, <<0, 0>> >>, <<30, <<20000, 0>> >> >>
    /\ probe.target.coords = << <<15, <<20000, 0>> >>, <<15, <<0, 0>> >> >>
    /\ Cardinality(Closest(probe.fast_mover.coords, 15)) = 2
    /\ Cardinality(Closest(probe.target.coords, 15)) = 2
    /\ probe.out

----------------------------------------------------------------------------
(* takeoffs.rs: AcState::taking_off on a history of altitudes.  A history  *)
(* is the sequence of the alt fields of recent_positions, oldest first.    *)

\* recent_positions.len() < 5
MinPositions == 5

\* i < 9
MaxPairs == 9

\* consecutive_inc_alt_count < 3
NeededIncreases == 3

\* the while loop of taking_off, from index i (0-based, as in the code) with
\* the count so far; limit is the bound on i
RECURSIVE scan_pairs(_, _, _, _)
scan_pairs(h, i, count, limit) ==
    IF i + 2 < Len(h) /\ i < limit /\ count < NeededIncreases
      THEN LET alt_prev == h[i + 2]
               alt_cur == h[i + 3]
               c == IF ~alt_prev.ground /\ ~alt_cur.ground
                      THEN IF alt_cur.alt > alt_prev.alt THEN count + 1 ELSE 0
                    ELSE IF alt_prev.ground /\ ~alt_cur.ground THEN 1
                    ELSE count
           IN scan_pairs(h, i + 1, c, limit)
      ELSE count

\* taking_off with no bound on the number of pairs scanned
taking_off_scans_all(h) ==
    IF Len(h) < MinPositions THEN None
    ELSE IF ~(\A k \in 1..2 : h[k] = OnGround) THEN None
    ELSE IF scan_pairs(h, 0, 0, Len(h)) < NeededIncreases THEN None
    ELSE Some(3)

\* taking_off: None, or Some(k) for a takeoff reported with the time and
\* point of the k-th position of the history (recent_positions[2])
taking_off(h) ==
    IF Len(h) < MinPositions THEN None
    ELSE IF ~(\A k \in 1..2 : h[k] = OnGround) THEN None
    ELSE IF scan_pairs(h, 0, 0, MaxPairs) < NeededIncreases THEN None
    ELSE Some(3)

\* k airborne readings at the same altitude
Level(k) == [n \in 1..k |-> Altitude(10)]

TakeoffAlts == {OnGround, Altitude(10), Altitude(20), Altitude(30), Altitude(40)}

\* sequences over S of length 0 to n
SeqsUpTo(S, n) == UNION {[1..m -> S] : m \in 0..n}

\* histories: up to two first positions, a level stretch, up to four more
Histories ==
    {head \o Level(k) \o tail :
        head \in SeqsUpTo({OnGround, Altitude(10)}, 2),
        k \in {0, 1, 2, 6, 7},
        tail \in SeqsUpTo(TakeoffAlts, 4)}

TakeoffInit ==
    /\ EngineIdle
    /\ LoaderIdle
    /\ \E h \in Histories :
           probe = [h |-> h, done |-> FALSE, out |-> None]

\* ac_state.taking_off()
TakingOff ==
    /\ ~probe.done
    /\ probe' = [probe EXCEPT !.done = TRUE, !.out = taking_off(probe.h)]
    /\ UNCHANGED <<engine_vars, loader_vars>>

TakeoffSpec == TakeoffInit /\ [][TakingOff]_vars

\* the j-th consecutive pair scanned, (h[j + 1], h[j + 2]), is an altitude
\* increase between two airborne readings
Increase(h, j) ==
    /\ ~h[j + 1].ground
    /\ ~h[j + 2].ground
    /\ h[j + 2].alt > h[j + 1].alt

\* the j-th pair is a step from ground to airborne
LiftOff(h, j) == h[j + 1].ground /\ ~h[j + 2].ground

\* a run of three is complete at one of the first 9 pairs
RunOfThree(h) ==
    \E j \in 3..Min2(MaxPairs, Len(h) - 2) :
        /\ Increase(h, j)
        /\ Increase(h, j - 1)
        /\ Increase(h, j - 2) \/ LiftOff(h, j - 2)

\* C33: taking_off reports a takeoff exactly for a history of at least 5
\* positions whose first two are on ground and in which a run of three
\* consecutive increases (a ground-to-airborne step counting as the first)
\* is completed within the first 9 pairs scanned from the second position;
\* the report is made for the third position.
C33_TakingOff ==
    probe.done
        => /\ IsSome(probe.out)
                <=> /\ Len(probe.h) >= 5
                    /\ probe.h[1] = OnGround
                    /\ probe.h[2] = OnGround
                    /\ RunOfThree(probe.h)
           /\ IsSome(probe.out) => probe.out = Some(3)

\* the history of test_taking_off2 (ground, ground, level, level, three
\* increases) is reported as a takeoff
C33_Witness ==
    /\ probe.done
    /\ probe.h = <<OnGround, OnGround, Altitude(10), Altitude(10),
                   Altitude(20), Altitude(30), Altitude(40)>>
    /\ IsSome(probe.out)

----------------------------------------------------------------------------
(* for_each_adsbx_json: pariter's order-preserving parallel map feeding a  *)
(* try_for_each on the calling thread.  The calling thread hands paths to  *)
(* a pool of worker threads through a channel, at most BufferSize ahead of *)
(* the results it has yielded; each worker decodes one file at a time and  *)
(* sends (index, result) back; the calling thread yields the results by    *)
(* index, keeping those that arrive early in a buffer.                     *)

\* paths.len()
NumPaths == 3

\* worker threads of the pool
NumWorkers == 2

\* how many paths the parallel map hands out ahead of the results yielded:
\* twice the number of threads
BufferSize == 2 * NumWorkers

Paths == 1..NumPaths

Workers == 1..NumWorkers

LoaderInit ==
    /\ EngineIdle
    /\ ProbeIdle
    /\ skip_json_errors \in BOOLEAN
    /\ outcome \in [Paths -> {"ok", "bad", "f_err"}]
    /\ next_tx_i = 0
    /\ next_rx_i = 0
    /\ work = << >>
    /\ busy = [w \in Workers |-> 0]
    /\ results = << >>
    /\ out_of_order = {}
    /\ pc = "next"
    /\ cur = 0
    /\ active = {}
    /\ delivered = << >>
    /\ bar = 0
    /\ ret = "none"

\* the map closure run by a worker calls the callback too
map_closure_calls_f(act, i) == act \cup {i}

\* lines 54-57: the closure of parallel_map_scoped only loads the file; the
\* callback invocations in progress stay as they are
map_closure(act, i) == act

\* the parallel map yields a result as soon as it arrives
yields_any(item_i, rx_i) == TRUE

\* lines 52-58: the result numbered item_i is the one try_for_each gets next
\* when rx_i results have been yielded
yields_next(item_i, rx_i) == item_i = rx_i + 1

\* the iteration ends one path early
exhausted_early(rx_i) == rx_i >= NumPaths - 1

\* lines 52-58: try_for_each has seen every path
exhausted(rx_i) == rx_i = NumPaths

\* the closure passes a failed file to the callback when errors are skipped
closure_calls_f_on_skip(result, skip) ==
    IF result /= "bad" \/ skip
      THEN [calls_f |-> TRUE, r |-> IF result = "f_err" THEN "Err" ELSE "Ok"]
      ELSE [calls_f |-> FALSE, r |-> "Err"]

\* the closure returns Ok(()) for a failed file whatever the flag
closure_always_skips(result, skip) ==
    IF result /= "bad"
      THEN [calls_f |-> TRUE, r |-> IF result = "f_err" THEN "Err" ELSE "Ok"]
      ELSE [calls_f |-> FALSE, r |-> "Ok"]

\* the closure returns Err(err) for a failed file whatever the flag
closure_never_skips(result, skip) ==
    IF result /= "bad"
      THEN [calls_f |-> TRUE, r |-> IF result = "f_err" THEN "Err" ELSE "Ok"]
      ELSE [calls_f |-> FALSE, r |-> "Err"]

\* lines 58-72, the closure of try_for_each on one result: whether it calls
\* f, and what it returns.  For Ok(response) it returns what f returns; for
\* Err((path, err)) it prints the error and returns Err(err) unless
\* skip_json_errors
try_for_each_closure(result, skip) ==
    IF result /= "bad"
      THEN [calls_f |-> TRUE, r |-> IF result = "f_err" THEN "Err" ELSE "Ok"]
      ELSE [calls_f |-> FALSE, r |-> IF skip THEN "Ok" ELSE "Err"]

\* lines 75-79: r is Ok(inner) when the scope ended normally, and the match
\* maps Ok(_) to Ok(()) whatever inner is
for_each_result(scope_ok, inner) == IF scope_ok THEN "Ok" ELSE "Err"

\* the calling thread hands the next path to the pool
Pump ==
    /\ pc = "next"
    /\ next_tx_i < NumPaths
    /\ next_tx_i < next_rx_i + BufferSize
    /\ work' = Append(work, next_tx_i + 1)
    /\ next_tx_i' = next_tx_i + 1
    /\ UNCHANGED <<engine_vars, probe, skip_json_errors, outcome, next_rx_i,
                   busy, results, out_of_order, pc, cur, active, delivered,
                   bar, ret>>

\* a worker takes a path from the channel and starts load_adsbx_json_file
WorkerTake(w) ==
    /\ busy[w] = 0
    /\ work /= << >>
    /\ busy' = [busy EXCEPT ![w] = Head(work)]
    /\ work' = Tail(work)
    /\ active' = map_closure(active, Head(work))
    /\ UNCHANGED <<engine_vars, probe, skip_json_errors, outcome, next_tx_i,
                   next_rx_i, results, out_of_order, pc, cur, delivered,
                   bar, ret>>

\* a worker has decoded its file (or failed to): the map closure returns,
\* ending whatever it had in progress, and the result is sent
WorkerSend(w) ==
    /\ busy[w] /= 0
    /\ results' = Append(results, busy[w])
    /\ active' = active \ (map_closure(active, busy[w]) \ active)
    /\ busy' = [busy EXCEPT ![w] = 0]
    /\ UNCHANGED <<engine_vars, probe, skip_json_errors, outcome, next_tx_i,
                   next_rx_i, work, out_of_order, pc, cur, delivered, bar, ret>>

\* ParallelMap::next: a buffered result whose turn has come is yielded
TakeBuffered ==
    /\ pc = "next"
    /\ \E i \in out_of_order :
           /\ yields_next(i, next_rx_i)
           /\ out_of_order' = out_of_order \ {i}
           /\ cur' = i
    /\ next_rx_i' = next_rx_i + 1
    /\ pc' = "closure"
    /\ UNCHANGED <<engine_vars, probe, skip_json_errors, outcome, next_tx_i,
                   work, busy, results, active, delivered, bar, ret>>

\* ParallelMap::next: a result is received; it is yielded or buffered
Receive ==
    /\ pc = "next"
    /\ ~\E i \in out_of_order : yields_next(i, next_rx_i)
    /\ results /= << >>
    /\ results' = Tail(results)
    /\ IF yields_next(Head(results), next_rx_i)
         THEN /\ cur' = Head(results)
              /\ next_rx_i' = next_rx_i + 1
              /\ pc' = "closure"
              /\ UNCHANGED out_of_order
         ELSE /\ out_of_order' = out_of_order \cup {Head(results)}
              /\ UNCHANGED <<cur, next_rx_i, pc>>
    /\ UNCHANGED <<engine_vars, probe, skip_json_errors, outcome, next_tx_i,
                   work, busy, active, delivered, bar, ret>>

\* lines 59-60: the result is Ok(response): f(response, &bar) is entered
CallbackBegin ==
    /\ pc = "closure"
    /\ try_for_each_closure(outcome[cur], skip_json_errors).calls_f
    /\ active' = active \cup {cur}
    /\ delivered' = Append(delivered, cur)
    /\ pc' = "callback"
    /\ UNCHANGED <<engine_vars, probe, skip_json_errors, outcome, next_tx_i,
                   next_rx_i, work, busy, results, out_of_order, cur, bar, ret>>

\* lines 60, 70-71: f returns; bar.inc(1); an Err ends try_for_each
CallbackEnd ==
    /\ pc = "callback"
    /\ active' = active \ {cur}
    /\ bar' = bar + 1
    /\ pc' = IF try_for_each_closure(outcome[cur], skip_json_errors).r = "Err"
               THEN "join_err" ELSE "next"
    /\ UNCHANGED <<engine_vars, probe, skip_json_errors, outcome, next_tx_i,
                   next_rx_i, work, busy, results, out_of_order, cur,
                   delivered, ret>>

\* lines 61-68, 70-71: the file failed: the error is printed and, unless
\* skip_json_errors, returned; bar.inc(1)
FileError ==
    /\ pc = "closure"
    /\ ~try_for_each_closure(outcome[cur], skip_json_errors).calls_f
    /\ bar' = bar + 1
    /\ pc' = IF try_for_each_closure(outcome[cur], skip_json_errors).r = "Err"
               THEN "join_err" ELSE "next"
    /\ UNCHANGED <<engine_vars, probe, skip_json_errors, outcome, next_tx_i,
                   next_rx_i, work, busy, results, out_of_order, cur, active,
                   delivered, ret>>

\* the iterator is exhausted: try_for_each returns Ok(())
Exhausted ==
    /\ pc = "next"
    /\ exhausted(next_rx_i)
    /\ pc' = "join_ok"
    /\ UNCHANGED <<engine_vars, probe, skip_json_errors, outcome, next_tx_i,
                   next_rx_i, work, busy, results, out_of_order, cur, active,
                   delivered, bar, ret>>

\* lines 73-79: the scope has joined its workers; bar.finish(); return
Return ==
    /\ pc \in {"join_ok", "join_err"}
    /\ \A w \in Workers : busy[w] = 0
    /\ ret' = for_each_result(TRUE, IF pc = "join_ok" THEN "Ok" ELSE "Err")
    /\ pc' = "done"
    /\ UNCHANGED <<engine_vars, probe, skip_json_errors, outcome, next_tx_i,
                   next_rx_i, work, busy, results, out_of_order, cur, active,
                   delivered, bar>>

Worker(w) == WorkerTake(w) \/ WorkerSend(w)

Caller ==
    \/ Pump
    \/ TakeBuffered
    \/ Receive
    \/ CallbackBegin
    \/ CallbackEnd
    \/ FileError
    \/ Exhausted
    \/ Return

LoaderNext == Caller \/ \E w \in Workers : Worker(w)

LoaderSpec == LoaderInit /\ [][LoaderNext]_vars

\* the operating system schedules every thread that can run
LoaderFair ==
    /\ LoaderSpec
    /\ WF_vars(Caller)
    /\ \A w \in Workers : WF_vars(Worker(w))

\* C2: the callback is invoked in the order of the input path list.
C2_InputOrder ==
    \A m, n \in 1..Len(delivered) : m < n => delivered[m] < delivered[n]

\* the callback is running for path 2, after path 1, and the result of
\* path 3, which was decoded before that of path 2, waits in the buffer
C2_Witness ==
    /\ delivered = <<1, 2>>
    /\ pc = "callback"
    /\ cur = 2
    /\ 3 \in out_of_order

\* C3: at most one invocation of the callback is in progress at any time.
C3_SerialCallback == Cardinality(active) <= 1

\* the callback is running for one path while every worker decodes another
C3_Witness ==
    /\ pc = "callback"
    /\ active = {cur}
    /\ \A w \in Workers : busy[w] /= 0

\* C4: when every file decodes and the callback never fails, the call
\* returns, and by then the callback was invoked exactly once per path.
C4_TerminatesExactlyOnce ==
    (\A p \in Paths : outcome[p] = "ok") =>
        <>(/\ pc = "done"
           /\ Len(delivered) = NumPaths
           /\ \A p \in Paths :
                  Cardinality({n \in 1..Len(delivered) : delivered[n] = p}) = 1)

\* the call has returned after a run without any failure
C4_Witness ==
    /\ pc = "done"
    /\ \A p \in Paths : outcome[p] = "ok"
    /\ Len(delivered) = NumPaths
    /\ bar = NumPaths

\* C13: with skip_json_errors = false, when a file of the list fails to be
\* read, decompressed or parsed, the call returns an error and not Ok.
C13_DecodeErrorReturned ==
    (/\ pc = "done"
     /\ ~skip_json_errors
     /\ \E p \in Paths : outcome[p] = "bad")
        => ret = "Err"

\* C14: the callback is never invoked for a path whose file failed, under
\* either setting of skip_json_errors.
C14_NoCallbackForFailedFile ==
    /\ \A n \in 1..Len(delivered) : outcome[delivered[n]] /= "bad"
    /\ \A p \in active : outcome[p] /= "bad"

\* with errors skipped, path 1 has failed, its error has been handled, and
\* the callback is running for path 2
C14_Witness ==
    /\ skip_json_errors
    /\ outcome[1] = "bad"
    /\ delivered = <<2>>
    /\ pc = "callback"
    /\ bar = 1
    /\ active = {2}

\* the first path of the list that fails: its file does not decode, or the
\* callback returns an error for it; NumPaths + 1 when there is none
FirstFailing ==
    IF \E p \in Paths : outcome[p] /= "ok"
      THEN CHOOSE p \in Paths :
               /\ outcome[p] /= "ok"
               /\ \A q \in Paths : outcome[q] /= "ok" => p <= q
      ELSE NumPaths + 1

\* C15: with skip_json_errors = false the first failing path ends the run:
\* the callback is invoked for no path after it (and not for it, when its
\* file failed), whatever the workers have decoded by then, and when the
\* call returns the callback has been invoked for every path before it.
C15_FirstFailureEndsRun ==
    (~skip_json_errors /\ pc /= "idle" /\ FirstFailing <= NumPaths) =>
        /\ \A n \in 1..Len(delivered) :
               \/ delivered[n] < FirstFailing
               \/ delivered[n] = FirstFailing /\ outcome[FirstFailing] = "f_err"
        /\ pc = "done" =>
               \A p \in 1..(FirstFailing - 1) :
                   \E n \in 1..Len(delivered) : delivered[n] = p

\* path 2 failed and ended the run after the callback for path 1; the
\* result of path 3, which a worker had decoded, was never yielded
C15_Witness ==
    /\ ~skip_json_errors
    /\ pc = "done"
    /\ outcome[1] = "ok"
    /\ outcome[2] = "bad"
    /\ outcome[3] = "ok"
    /\ delivered = <<1>>
    /\ 3 \in out_of_order

\* the first path for which the callback returns an error; NumPaths + 1
\* when there is none
FirstCallbackError ==
    IF \E p \in Paths : outcome[p] = "f_err"
      THEN CHOOSE p \in Paths :
               /\ outcome[p] = "f_err"
               /\ \A q \in Paths : outcome[q] = "f_err" => p <= q
      ELSE NumPaths + 1

\* the paths the callback is invoked for when failed files are skipped: the
\* paths that decode, in input order, up to the first callback error
SkippingDelivers ==
    SelectSeq([p \in 1..NumPaths |-> p],
              LAMBDA p : outcome[p] /= "bad" /\ p <= FirstCallbackError)

\* C16: with skip_json_errors = true a failing file does not stop the run:
\* the call returns after the callback has been invoked, in input order,
\* for every path that decodes (as far as the callback lets the run go:
\* all of them when it returns no error), and it then returns Ok.
C16_SkipContinues ==
    skip_json_errors =>
        <>(/\ pc = "done"
           /\ delivered = SkippingDelivers
           /\ FirstCallbackError > NumPaths => ret = "Ok")

\* with errors skipped, path 1 failed and the call returned Ok after the
\* callback ran for paths 2 and 3
C16_Witness ==
    /\ skip_json_errors
    /\ pc = "done"
    /\ outcome[1] = "bad"
    /\ delivered = <<2, 3>>
    /\ bar = 3
    /\ ret = "Ok"

\* C37: once the callback has returned an error for a path, it is invoked
\* for no later path, and the call returns an error.
C37_CallbackErrorReturned ==
    \A p \in Paths :
        (/\ outcome[p] = "f_err"
         /\ \E n \in 1..Len(delivered) : delivered[n] = p
         /\ p \notin active)
            => /\ \A n \in 1..Len(delivered) : delivered[n] <= p
               /\ active = {}
               /\ pc = "done" => ret = "Err"

====
